---- MODULE Spec2Model ----
(***************************************************************************)
(* Model of CqrsFramework (src/src/cqrs.rs): the command dispatcher of an  *)
(* event-sourced aggregate.  Every execute invocation is a process that    *)
(* runs load_aggregate, command.handle, wrap_events, duplicate,            *)
(* store.commit and view.dispatch in program order.  Invocations of        *)
(* different processes interleave at the collaborator calls.  The event    *)
(* store, the commands, the events and the metadata supplier are the       *)
(* collaborators of the framework; the store follows the append contract   *)
(* of the specification.                                                   *)
(***************************************************************************)
EXTENDS Integers, Sequences, FiniteSets

\* Total number of execute invocations explored.
MaxCalls == 3

\* The threads (dispatcher handles) that invoke execute.
Procs == {1, 2}

\* The aggregate identities in use.
Ids == {1, 2}

\* The commands handed to execute.
Commands == {"Deposit", "DepositTwice", "Withdraw", "Noop"}

\* AggregateId::to_string: the storage key of an identity.
ToString(id) == IF id = 1 THEN "A" ELSE "B"

\* AggregateId::aggregate_type: the type name of the aggregate.
AggregateType(id) == "Account"

Keys == {ToString(id) : id \in Ids}

\* Aggregate::default: the state before any event.
DefaultAggregate == 0

\* DomainEvent::apply: the state transition of one event.
Apply(payload, aggregate) ==
    IF payload = "Deposited" THEN aggregate + 1 ELSE aggregate - 1

Ok == [ok |-> TRUE, err |-> "none"]
Err(e) == [ok |-> FALSE, err |-> e]

\* Command::handle: the events a command produces on an aggregate state,
\* or a domain error.
HandleCommand(command, aggregate) ==
    CASE command = "Deposit" ->
           [ok |-> TRUE, err |-> "none", events |-> <<"Deposited">>]
      [] command = "DepositTwice" ->
           [ok |-> TRUE, err |-> "none", events |-> <<"Deposited", "Deposited">>]
      [] command = "Withdraw" ->
           IF aggregate >= 1
           THEN [ok |-> TRUE, err |-> "none", events |-> <<"Withdrawn">>]
           ELSE [ok |-> FALSE, err |-> "InsufficientFunds", events |-> <<>>]
      [] OTHER ->
           [ok |-> TRUE, err |-> "none", events |-> <<>>]

\* MetadataSupplier::supply: the metadata of the n-th call of the supplier.
Supply(n) == [stamp |-> n]

\* load_aggregate without the store call: folds the envelopes over the
\* default aggregate and keeps the sequence of the last envelope.
RECURSIVE Fold(_, _, _)
Fold(envelopes, aggregate, current_sequence) ==
    IF envelopes = <<>>
    THEN [aggregate |-> aggregate, current_sequence |-> current_sequence]
    ELSE Fold(Tail(envelopes),
              Apply(Head(envelopes).payload, aggregate),
              Head(envelopes).sequence)

LoadAggregateFirst(committed_events) ==
    [aggregate |-> Fold(committed_events, DefaultAggregate, 0).aggregate,
     current_sequence |-> IF committed_events = <<>>
                          THEN 0
                          ELSE Head(committed_events).sequence]

LoadAggregate(committed_events) ==
    Fold(committed_events, DefaultAggregate, 0)

\* wrap_events: one envelope per event, the sequence incremented before each
\* envelope, one supply call per event (the supplier has made n calls).
RECURSIVE WrapEventsPostIncrement(_, _, _, _)
WrapEventsPostIncrement(id, current_sequence, resultant_events, n) ==
    IF resultant_events = <<>>
    THEN <<>>
    ELSE <<[aggregate_id |-> ToString(id),
            sequence |-> current_sequence,
            aggregate_type |-> AggregateType(id),
            payload |-> Head(resultant_events),
            metadata |-> Supply(n + 1)]>>
         \o WrapEventsPostIncrement(id, current_sequence + 1,
                                    Tail(resultant_events), n + 1)

RECURSIVE WrapEventsGap(_, _, _, _)
WrapEventsGap(id, current_sequence, resultant_events, n) ==
    IF resultant_events = <<>>
    THEN <<>>
    ELSE <<[aggregate_id |-> ToString(id),
            sequence |-> current_sequence + 1,
            aggregate_type |-> AggregateType(id),
            payload |-> Head(resultant_events),
            metadata |-> Supply(n + 1)]>>
         \o WrapEventsGap(id, current_sequence + 2, Tail(resultant_events), n + 1)

RECURSIVE WrapEventsOneSupply(_, _, _, _)
WrapEventsOneSupply(id, current_sequence, resultant_events, n) ==
    IF resultant_events = <<>>
    THEN <<>>
    ELSE <<[aggregate_id |-> ToString(id),
            sequence |-> current_sequence + 1,
            aggregate_type |-> AggregateType(id),
            payload |-> Head(resultant_events),
            metadata |-> Supply(n + 1)]>>
         \o WrapEventsOneSupply(id, current_sequence + 1,
                                Tail(resultant_events), n)

RECURSIVE WrapEventsSwapped(_, _, _, _)
WrapEventsSwapped(id, current_sequence, resultant_events, n) ==
    IF resultant_events = <<>>
    THEN <<>>
    ELSE <<[aggregate_id |-> AggregateType(id),
            sequence |-> current_sequence + 1,
            aggregate_type |-> ToString(id),
            payload |-> Head(resultant_events),
            metadata |-> Supply(n + 1)]>>
         \o WrapEventsSwapped(id, current_sequence + 1,
                              Tail(resultant_events), n + 1)

RECURSIVE WrapEvents(_, _, _, _)
WrapEvents(id, current_sequence, resultant_events, n) ==
    IF resultant_events = <<>>
    THEN <<>>
    ELSE <<[aggregate_id |-> ToString(id),
            sequence |-> current_sequence + 1,
            aggregate_type |-> AggregateType(id),
            payload |-> Head(resultant_events),
            metadata |-> Supply(n + 1)]>>
         \o WrapEvents(id, current_sequence + 1, Tail(resultant_events), n + 1)

\* duplicate: a clone of every envelope, in order.
DuplicateDropFirst(wrapped_events) ==
    IF wrapped_events = <<>> THEN <<>> ELSE Tail(wrapped_events)

RECURSIVE Duplicate(_)
Duplicate(wrapped_events) ==
    IF wrapped_events = <<>>
    THEN <<>>
    ELSE <<Head(wrapped_events)>> \o Duplicate(Tail(wrapped_events))

\* EventStore::load: the committed envelopes of an identity, in order.
StoreLoad(store, id) == store[ToString(id)]

\* The sequence of the last envelope the store holds for a key.
StoreTail(store, key) ==
    IF store[key] = <<>> THEN 0 ELSE store[key][Len(store[key])].sequence

\* EventStore::commit: atomic append.  An empty batch is a no-op that
\* succeeds; a batch that does not start at tail + 1 is a conflict; an
\* unavailable store appends nothing.
StoreCommit(store, batch, available) ==
    IF batch = <<>>
    THEN [result |-> Ok, store |-> store]
    ELSE LET key == batch[1].aggregate_id IN
         IF batch[1].sequence # StoreTail(store, key) + 1
         THEN [result |-> Err("Conflict"), store |-> store]
         ELSE IF ~available
         THEN [result |-> Err("Unavailable"), store |-> store]
         ELSE [result |-> Ok,
               store |-> [store EXCEPT ![key] = store[key] \o batch]]

None == [ok |-> FALSE, err |-> "pending"]

\* The Vec that wrap_events allocates (line 78) in the n-th invocation made
\* by thread p.
WrappedVec(p, n) == [owner |-> p, call |-> n, vec |-> "wrapped_events"]

\* duplicate allocates a Vec of its own (line 69) and fills it with clones:
\* the object that holds the duplicate of the Vec object.
DuplicateVecShared(object) == object

DuplicateVec(object) == [object EXCEPT !.vec = "committed_events"]

\* The Vec objects behind the stored envelopes, after a commit that took the
\* store from store to committed by consuming the Vec object.
PersistedIn(objects, store, committed, object) ==
    [k \in Keys |->
        objects[k] \o [j \in 1..(Len(committed[k]) - Len(store[k])) |-> object]]

\* What is left of a sequence of values once the Vec object is drained: the
\* values held in that object are gone.
RECURSIVE Drained(_, _, _)
Drained(values, objects, object) ==
    IF values = <<>>
    THEN <<>>
    ELSE IF Head(objects) = object
    THEN Drained(Tail(values), Tail(objects), object)
    ELSE <<Head(values)>> \o Drained(Tail(values), Tail(objects), object)

\* What the view processor may do with the Vec it is handed: apply it,
\* fail, or drain it.
SinkOutcomes == {"applied", "failed", "consumed"}

\* The store after the view processor did outcome with the Vec object.
AfterSink(store, objects, object, outcome) ==
    IF outcome = "consumed"
    THEN [k \in Keys |-> Drained(store[k], objects[k], object)]
    ELSE store

VARIABLES
    log,              \* the event store: key -> committed envelopes
    sunk,             \* the dispatch calls the view processor received
    supplied,         \* number of supply calls the metadata supplier served
    calls,            \* number of execute invocations started
    pc,               \* position of each invocation
    aggregate_id,     \* argument of execute
    command,          \* argument of execute
    loaded,           \* load_aggregate: committed_events
    aggregate,        \* execute: aggregate
    current_sequence, \* execute: current_sequence
    handled,          \* execute: result of command.handle
    wrapped_events,   \* execute: wrapped_events
    committed_events, \* execute: committed_events
    commit_result,    \* execute: result of store.commit
    sink_outcome,     \* what the view processor did with the dispatch
    result,           \* value returned by execute
    ncalls,           \* collaborator calls made by the invocation
    call_no,          \* number of invocations the thread has started
    persisted_in      \* the Vec object behind every stored envelope

vars == <<log, sunk, supplied, calls, pc, aggregate_id, command, loaded,
          aggregate, current_sequence, handled, wrapped_events,
          committed_events, commit_result, sink_outcome, result, ncalls,
          call_no, persisted_in>>

NoCalls == [load |-> 0, handle |-> 0, supply |-> 0, commit |-> 0, dispatch |-> 0]

NotHandled == [ok |-> FALSE, err |-> "pending", events |-> <<>>]

Init ==
    /\ log = [k \in Keys |-> <<>>]
    /\ sunk = <<>>
    /\ supplied = 0
    /\ calls = 0
    /\ pc = [p \in Procs |-> "Idle"]
    /\ aggregate_id = [p \in Procs |-> 1]
    /\ command = [p \in Procs |-> "Noop"]
    /\ loaded = [p \in Procs |-> <<>>]
    /\ aggregate = [p \in Procs |-> DefaultAggregate]
    /\ current_sequence = [p \in Procs |-> 0]
    /\ handled = [p \in Procs |-> NotHandled]
    /\ wrapped_events = [p \in Procs |-> <<>>]
    /\ committed_events = [p \in Procs |-> <<>>]
    /\ commit_result = [p \in Procs |-> None]
    /\ sink_outcome = [p \in Procs |-> "none"]
    /\ result = [p \in Procs |-> None]
    /\ ncalls = [p \in Procs |-> NoCalls]
    /\ call_no = [p \in Procs |-> 0]
    /\ persisted_in = [k \in Keys |-> <<>>]

\* A caller invokes execute(id, c): the invocation starts with fresh locals.
Call(p, id, c) ==
    /\ pc[p] \in {"Idle", "Done"}
    /\ calls < MaxCalls
    /\ calls' = calls + 1
    /\ pc' = [pc EXCEPT ![p] = "Loading"]
    /\ aggregate_id' = [aggregate_id EXCEPT ![p] = id]
    /\ command' = [command EXCEPT ![p] = c]
    /\ loaded' = [loaded EXCEPT ![p] = <<>>]
    /\ aggregate' = [aggregate EXCEPT ![p] = DefaultAggregate]
    /\ current_sequence' = [current_sequence EXCEPT ![p] = 0]
    /\ handled' = [handled EXCEPT ![p] = NotHandled]
    /\ wrapped_events' = [wrapped_events EXCEPT ![p] = <<>>]
    /\ committed_events' = [committed_events EXCEPT ![p] = <<>>]
    /\ commit_result' = [commit_result EXCEPT ![p] = None]
    /\ sink_outcome' = [sink_outcome EXCEPT ![p] = "none"]
    /\ result' = [result EXCEPT ![p] = None]
    /\ ncalls' = [ncalls EXCEPT ![p] = NoCalls]
    /\ call_no' = [call_no EXCEPT ![p] = @ + 1]
    /\ UNCHANGED <<log, sunk, supplied, persisted_in>>

\* execute, line 58: load_aggregate.
LoadShared(p) ==
    /\ pc[p] = "Loading"
    /\ LET envelopes == StoreLoad(log, aggregate_id[p])
           others == {q \in Procs \ {p} :
                        /\ ncalls[q].load >= 1
                        /\ aggregate_id[q] = aggregate_id[p]}
           kept == IF others = {}
                   THEN DefaultAggregate
                   ELSE aggregate[CHOOSE q \in others : TRUE]
           folded == Fold(envelopes, kept, 0)
       IN /\ loaded' = [loaded EXCEPT ![p] = envelopes]
          /\ aggregate' = [aggregate EXCEPT ![p] = folded.aggregate]
          /\ current_sequence' =
                 [current_sequence EXCEPT ![p] = folded.current_sequence]
    /\ ncalls' = [ncalls EXCEPT ![p].load = @ + 1]
    /\ pc' = [pc EXCEPT ![p] = "Executing"]
    /\ UNCHANGED <<call_no, persisted_in, log, sunk, supplied, calls,
                   aggregate_id, command, handled, wrapped_events,
                   committed_events, commit_result, sink_outcome, result>>

Load(p) ==
    /\ pc[p] = "Loading"
    /\ LET envelopes == StoreLoad(log, aggregate_id[p])
           folded == LoadAggregate(envelopes)
       IN /\ loaded' = [loaded EXCEPT ![p] = envelopes]
          /\ aggregate' = [aggregate EXCEPT ![p] = folded.aggregate]
          /\ current_sequence' =
                 [current_sequence EXCEPT ![p] = folded.current_sequence]
    /\ ncalls' = [ncalls EXCEPT ![p].load = @ + 1]
    /\ pc' = [pc EXCEPT ![p] = "Executing"]
    /\ UNCHANGED <<call_no, persisted_in, log, sunk, supplied, calls, aggregate_id, command, handled,
                   wrapped_events, committed_events, commit_result,
                   sink_outcome, result>>

\* execute, line 59: command.handle(&mut aggregate)?
HandleIgnoreError(p) ==
    /\ pc[p] = "Executing"
    /\ LET h == HandleCommand(command[p], aggregate[p])
       IN /\ handled' = [handled EXCEPT ![p] = h]
          /\ pc' = [pc EXCEPT ![p] = "Wrapping"]
          /\ result' = result
    /\ ncalls' = [ncalls EXCEPT ![p].handle = @ + 1]
    /\ UNCHANGED <<call_no, persisted_in, log, sunk, supplied, calls, aggregate_id, command, loaded,
                   aggregate, current_sequence, wrapped_events,
                   committed_events, commit_result, sink_outcome>>

Handle(p) ==
    /\ pc[p] = "Executing"
    /\ LET h == HandleCommand(command[p], aggregate[p])
       IN /\ handled' = [handled EXCEPT ![p] = h]
          /\ IF h.ok
             THEN /\ pc' = [pc EXCEPT ![p] = "Wrapping"]
                  /\ result' = result
             ELSE /\ pc' = [pc EXCEPT ![p] = "Done"]
                  /\ result' = [result EXCEPT ![p] = Err(h.err)]
    /\ ncalls' = [ncalls EXCEPT ![p].handle = @ + 1]
    /\ UNCHANGED <<call_no, persisted_in, log, sunk, supplied, calls, aggregate_id, command, loaded,
                   aggregate, current_sequence, wrapped_events,
                   committed_events, commit_result, sink_outcome>>

\* execute, lines 60-62: wrap_events, then duplicate.
WrapFromStoreTail(p) ==
    /\ pc[p] = "Wrapping"
    /\ LET k == Len(handled[p].events)
           w == WrapEvents(aggregate_id[p],
                           StoreTail(log, ToString(aggregate_id[p])),
                           handled[p].events, supplied)
       IN /\ wrapped_events' = [wrapped_events EXCEPT ![p] = w]
          /\ committed_events' = [committed_events EXCEPT ![p] = Duplicate(w)]
          /\ supplied' = supplied + k
          /\ ncalls' = [ncalls EXCEPT ![p].supply = @ + k]
    /\ pc' = [pc EXCEPT ![p] = "Committing"]
    /\ UNCHANGED <<call_no, persisted_in, log, sunk, calls, aggregate_id,
                   command, loaded, aggregate, current_sequence, handled,
                   commit_result, sink_outcome, result>>

Wrap(p) ==
    /\ pc[p] = "Wrapping"
    /\ LET k == Len(handled[p].events)
           w == WrapEvents(aggregate_id[p], current_sequence[p],
                           handled[p].events, supplied)
       IN /\ wrapped_events' = [wrapped_events EXCEPT ![p] = w]
          /\ committed_events' = [committed_events EXCEPT ![p] = Duplicate(w)]
          /\ supplied' = supplied + k
          /\ ncalls' = [ncalls EXCEPT ![p].supply = @ + k]
    /\ pc' = [pc EXCEPT ![p] = "Committing"]
    /\ UNCHANGED <<call_no, persisted_in, log, sunk, calls, aggregate_id, command, loaded, aggregate,
                   current_sequence, handled, commit_result, sink_outcome,
                   result>>

\* execute, line 63: self.store.commit(wrapped_events)?
CommitIgnoreError(p) ==
    /\ pc[p] = "Committing"
    /\ \E available \in BOOLEAN :
         LET c == StoreCommit(log, wrapped_events[p], available)
         IN /\ log' = c.store
            /\ persisted_in' = PersistedIn(persisted_in, log, c.store,
                                           WrappedVec(p, call_no[p]))
            /\ commit_result' = [commit_result EXCEPT ![p] = c.result]
            /\ pc' = [pc EXCEPT ![p] = "Notifying"]
            /\ result' = result
    /\ ncalls' = [ncalls EXCEPT ![p].commit = @ + 1]
    /\ UNCHANGED <<call_no, sunk, supplied, calls, aggregate_id, command, loaded,
                   aggregate, current_sequence, handled, wrapped_events,
                   committed_events, sink_outcome>>

CommitRetryOnConflict(p) ==
    /\ pc[p] = "Committing"
    /\ \E available \in BOOLEAN :
         LET c == StoreCommit(log, wrapped_events[p], available)
         IN /\ log' = c.store
            /\ persisted_in' = PersistedIn(persisted_in, log, c.store,
                                           WrappedVec(p, call_no[p]))
            /\ commit_result' = [commit_result EXCEPT ![p] = c.result]
            /\ IF c.result.ok
               THEN /\ pc' = [pc EXCEPT ![p] = "Notifying"]
                    /\ result' = result
               ELSE IF c.result.err = "Conflict" /\ ncalls[p].commit = 0
               THEN /\ pc' = [pc EXCEPT ![p] = "Loading"]
                    /\ result' = result
               ELSE /\ pc' = [pc EXCEPT ![p] = "Done"]
                    /\ result' = [result EXCEPT ![p] = c.result]
    /\ ncalls' = [ncalls EXCEPT ![p].commit = @ + 1]
    /\ UNCHANGED <<call_no, sunk, supplied, calls, aggregate_id, command, loaded,
                   aggregate, current_sequence, handled, wrapped_events,
                   committed_events, sink_outcome>>

CommitSkipEmpty(p) ==
    /\ pc[p] = "Committing"
    /\ IF wrapped_events[p] = <<>>
       THEN /\ pc' = [pc EXCEPT ![p] = "Done"]
            /\ result' = [result EXCEPT ![p] = Ok]
            /\ UNCHANGED <<log, commit_result, ncalls, persisted_in>>
       ELSE /\ \E available \in BOOLEAN :
                 LET c == StoreCommit(log, wrapped_events[p], available)
                 IN /\ log' = c.store
                    /\ persisted_in' = PersistedIn(persisted_in, log, c.store,
                                                   WrappedVec(p, call_no[p]))
                    /\ commit_result' = [commit_result EXCEPT ![p] = c.result]
                    /\ IF c.result.ok
                       THEN /\ pc' = [pc EXCEPT ![p] = "Notifying"]
                            /\ result' = result
                       ELSE /\ pc' = [pc EXCEPT ![p] = "Done"]
                            /\ result' = [result EXCEPT ![p] = c.result]
            /\ ncalls' = [ncalls EXCEPT ![p].commit = @ + 1]
    /\ UNCHANGED <<call_no, sunk, supplied, calls, aggregate_id, command, loaded,
                   aggregate, current_sequence, handled, wrapped_events,
                   committed_events, sink_outcome>>

CommitResubmit(p) ==
    /\ pc[p] = "Committing"
    /\ \E available \in BOOLEAN :
         LET c == StoreCommit(log, wrapped_events[p], available)
         IN /\ log' = c.store
            /\ persisted_in' = PersistedIn(persisted_in, log, c.store,
                                           WrappedVec(p, call_no[p]))
            /\ commit_result' = [commit_result EXCEPT ![p] = c.result]
            /\ IF c.result.ok
               THEN /\ pc' = [pc EXCEPT ![p] = "Notifying"]
                    /\ result' = result
               ELSE IF c.result.err = "Conflict"
               THEN /\ pc' = pc
                    /\ result' = result
               ELSE /\ pc' = [pc EXCEPT ![p] = "Done"]
                    /\ result' = [result EXCEPT ![p] = c.result]
    /\ ncalls' = [ncalls EXCEPT ![p].commit = IF @ < 2 THEN @ + 1 ELSE @]
    /\ UNCHANGED <<call_no, sunk, supplied, calls, aggregate_id, command,
                   loaded, aggregate, current_sequence, handled,
                   wrapped_events, committed_events, sink_outcome>>

Commit(p) ==
    /\ pc[p] = "Committing"
    /\ \E available \in BOOLEAN :
         LET c == StoreCommit(log, wrapped_events[p], available)
         IN /\ log' = c.store
            /\ persisted_in' = PersistedIn(persisted_in, log, c.store,
                                           WrappedVec(p, call_no[p]))
            /\ commit_result' = [commit_result EXCEPT ![p] = c.result]
            /\ IF c.result.ok
               THEN /\ pc' = [pc EXCEPT ![p] = "Notifying"]
                    /\ result' = result
               ELSE /\ pc' = [pc EXCEPT ![p] = "Done"]
                    /\ result' = [result EXCEPT ![p] = c.result]
    /\ ncalls' = [ncalls EXCEPT ![p].commit = @ + 1]
    /\ UNCHANGED <<call_no, sunk, supplied, calls, aggregate_id, command, loaded,
                   aggregate, current_sequence, handled, wrapped_events,
                   committed_events, sink_outcome>>

\* execute, lines 64-65: self.view.dispatch(&aggregate_id, committed_events);
\* Ok(()).  dispatch returns nothing: whatever the view processor did is not
\* seen by execute.  The view processor owns the Vec it is handed and may
\* drain it.
DispatchPropagate(p) ==
    /\ pc[p] = "Notifying"
    /\ sunk' = Append(sunk, [id |-> aggregate_id[p],
                             batch |-> committed_events[p]])
    /\ \E outcome \in SinkOutcomes :
         /\ sink_outcome' = [sink_outcome EXCEPT ![p] = outcome]
         /\ log' = AfterSink(log, persisted_in,
                             DuplicateVec(WrappedVec(p, call_no[p])), outcome)
         /\ persisted_in' =
                AfterSink(persisted_in, persisted_in,
                          DuplicateVec(WrappedVec(p, call_no[p])), outcome)
         /\ result' = [result EXCEPT ![p] =
                          IF outcome = "failed" THEN Err("SinkFailed") ELSE Ok]
    /\ ncalls' = [ncalls EXCEPT ![p].dispatch = @ + 1]
    /\ pc' = [pc EXCEPT ![p] = "Done"]
    /\ UNCHANGED <<call_no, supplied, calls, aggregate_id, command, loaded,
                   aggregate, current_sequence, handled, wrapped_events,
                   committed_events, commit_result>>

Dispatch(p) ==
    /\ pc[p] = "Notifying"
    /\ sunk' = Append(sunk, [id |-> aggregate_id[p],
                             batch |-> committed_events[p]])
    /\ \E outcome \in SinkOutcomes :
         /\ sink_outcome' = [sink_outcome EXCEPT ![p] = outcome]
         /\ log' = AfterSink(log, persisted_in,
                             DuplicateVec(WrappedVec(p, call_no[p])), outcome)
         /\ persisted_in' =
                AfterSink(persisted_in, persisted_in,
                          DuplicateVec(WrappedVec(p, call_no[p])), outcome)
    /\ ncalls' = [ncalls EXCEPT ![p].dispatch = @ + 1]
    /\ result' = [result EXCEPT ![p] = Ok]
    /\ pc' = [pc EXCEPT ![p] = "Done"]
    /\ UNCHANGED <<call_no, supplied, calls, aggregate_id, command, loaded,
                   aggregate, current_sequence, handled, wrapped_events,
                   committed_events, commit_result>>

Next ==
    \/ \E p \in Procs, id \in Ids, c \in Commands : Call(p, id, c)
    \/ \E p \in Procs : Load(p)
    \/ \E p \in Procs : Handle(p)
    \/ \E p \in Procs : Wrap(p)
    \/ \E p \in Procs : Commit(p)
    \/ \E p \in Procs : Dispatch(p)

Spec == Init /\ [][Next]_vars

\* The invocations under fair scheduling: every collaborator call returns,
\* so an invocation that can take its next step takes it.
MaxLiveCalls == 2

LiveCall(p, id, c) == calls < MaxLiveCalls /\ Call(p, id, c)

LiveNext ==
    \/ \E p \in Procs, id \in Ids, c \in Commands : LiveCall(p, id, c)
    \/ \E p \in Procs : Load(p)
    \/ \E p \in Procs : Handle(p)
    \/ \E p \in Procs : Wrap(p)
    \/ \E p \in Procs : Commit(p)
    \/ \E p \in Procs : Dispatch(p)

Fairness ==
    \A p \in Procs :
        /\ WF_vars(Load(p))
        /\ WF_vars(Handle(p))
        /\ WF_vars(Wrap(p))
        /\ WF_vars(Commit(p))
        /\ WF_vars(Dispatch(p))

LiveSpec == Init /\ [][LiveNext]_vars /\ Fairness

(***************************************************************************)
(* Properties.                                                             *)
(***************************************************************************)

\* The invocation of p has built its batch (the command succeeded and
\* wrap_events has returned).
Wrapped(p) == handled[p].ok /\ pc[p] \in {"Committing", "Notifying", "Done"}

\* The invocation of p has loaded its aggregate.
Loaded(p) == ncalls[p].load >= 1

\* The step is made by the invocation of p.
StepOf(p) == pc'[p] # pc[p]

\* C1: an execute that loaded N committed events and whose command produced
\* K events hands commit exactly K envelopes, the i-th carrying sequence
\* N + i and the i-th event of the command.
C1_Sequencing ==
    \A p \in Procs :
        Wrapped(p) =>
            LET N == Len(loaded[p])
                K == Len(handled[p].events)
            IN /\ Len(wrapped_events[p]) = K
               /\ \A i \in 1..K :
                    /\ wrapped_events[p][i].sequence = N + i
                    /\ wrapped_events[p][i].payload = handled[p].events[i]

C1_Witness ==
    \E p, q \in Procs :
        /\ pc[p] = "Done" /\ result[p].ok
        /\ Len(loaded[p]) = 2 /\ Len(wrapped_events[p]) = 2
        /\ wrapped_events[p][2].sequence = 4
        /\ Wrapped(q) /\ loaded[q] = <<>> /\ Len(wrapped_events[q]) >= 1
        /\ wrapped_events[q][1].sequence = 1

\* C2: the committed envelopes of every identity carry the sequence numbers
\* 1, 2, ..., n in log order, and the store only ever appends the batch an
\* invocation wrapped, as wrapped.
C2_LogContiguous ==
    \A k \in Keys : \A i \in 1..Len(log[k]) :
        log[k][i].sequence = i /\ log[k][i].aggregate_id = k

C2_StoredAsWrapped ==
    \A k \in Keys :
        log'[k] # log[k] =>
            \E p \in Procs :
                /\ pc[p] = "Committing"
                /\ wrapped_events[p] # <<>>
                /\ log'[k] = log[k] \o wrapped_events[p]

C2_Contiguity == [] C2_LogContiguous /\ [][C2_StoredAsWrapped]_vars

C2_Witness ==
    /\ Len(log["A"]) = 3
    /\ \E p \in Procs : commit_result[p].err = "Conflict"

\* C3: when command.handle fails, execute returns that error after one load,
\* no supply, no commit and no dispatch, and no step of the invocation up
\* to the failure changes the log or reaches the sink.
C3_FailedState ==
    \A p \in Procs :
        (ncalls[p].handle = 1 /\ ~handled[p].ok) =>
            /\ pc[p] = "Done"
            /\ result[p] = Err(handled[p].err)
            /\ ncalls[p] = [load |-> 1, handle |-> 1, supply |-> 0,
                            commit |-> 0, dispatch |-> 0]

C3_NoEffect ==
    \A p \in Procs :
        (pc[p] \in {"Loading", "Executing"} /\ StepOf(p)) =>
            log' = log /\ sunk' = sunk

C3_CommandFailure == [] C3_FailedState /\ [][C3_NoEffect]_vars

C3_Witness ==
    \E p \in Procs :
        /\ pc[p] = "Done"
        /\ aggregate_id[p] = 2 /\ log["B"] = <<>>
        /\ ncalls[p].handle = 1 /\ ~handled[p].ok
        /\ result[p] = Err("InsufficientFunds")

\* C4: the sink is invoked only after the commit of the same invocation
\* succeeded; a failed commit ends the invocation with that failure, without
\* a dispatch and without a change of the log.
C4_NotifyState ==
    \A p \in Procs :
        /\ ncalls[p].dispatch > 0 =>
               ncalls[p].commit = 1 /\ commit_result[p].ok
        /\ pc[p] = "Notifying" =>
               ncalls[p].commit = 1 /\ commit_result[p].ok
        /\ (ncalls[p].commit >= 1 /\ ~commit_result[p].ok) =>
               /\ pc[p] = "Done"
               /\ result[p] = commit_result[p]
               /\ ncalls[p].dispatch = 0

C4_FailedCommitNoEffect ==
    \A p \in Procs :
        (pc[p] = "Committing" /\ StepOf(p) /\ ~commit_result'[p].ok) =>
            log' = log /\ sunk' = sunk

C4_CommitBeforeNotify ==
    [] C4_NotifyState /\ [][C4_FailedCommitNoEffect]_vars

C4_Witness ==
    \E p, q \in Procs :
        /\ pc[p] = "Done" /\ result[p] = Err("Unavailable")
        /\ ncalls[p].dispatch = 0
        /\ pc[q] = "Done" /\ ncalls[q].dispatch = 1 /\ wrapped_events[q] # <<>>

\* C5: every envelope delivered to the sink is among the committed envelopes
\* of its identity, with the same identity, sequence and payload.
C5_SunkCommitted ==
    \A i \in 1..Len(sunk) : \A j \in 1..Len(sunk[i].batch) :
        LET e == sunk[i].batch[j]
            committed == log[ToString(sunk[i].id)]
        IN \E n \in 1..Len(committed) :
               /\ committed[n].aggregate_id = e.aggregate_id
               /\ committed[n].sequence = e.sequence
               /\ committed[n].payload = e.payload

C5_Witness ==
    /\ Len(sunk) = 2
    /\ \A i \in 1..Len(sunk) : sunk[i].batch # <<>>
    /\ \E p \in Procs : pc[p] = "Done" /\ ~result[p].ok

\* C6: of two invocations on the same identity that loaded the same
\* current_sequence and both built a non-empty batch, at most one commits;
\* the commit of the other, made after the first succeeded, is a conflict,
\* ends the invocation with the conflict error, and changes neither the
\* log nor the sink.
SameStart(p, q) ==
    /\ p # q
    /\ aggregate_id[p] = aggregate_id[q]
    /\ Wrapped(p) /\ Wrapped(q)
    /\ current_sequence[p] = current_sequence[q]
    /\ wrapped_events[p] # <<>> /\ wrapped_events[q] # <<>>

C6_AtMostOne ==
    \A p, q \in Procs :
        SameStart(p, q) =>
            /\ ~(commit_result[p].ok /\ commit_result[q].ok)
            /\ (commit_result[p].ok /\ ncalls[q].commit >= 1) =>
                   /\ pc[q] = "Done"
                   /\ ncalls[q].commit = 1
                   /\ ncalls[q].dispatch = 0
                   /\ ~result[q].ok

C6_SecondRejected ==
    \A p, q \in Procs :
        (SameStart(p, q) /\ commit_result[p].ok
           /\ pc[q] = "Committing" /\ StepOf(q)) =>
            /\ commit_result'[q] = Err("Conflict")
            /\ result'[q] = Err("Conflict")
            /\ pc'[q] = "Done"
            /\ log' = log /\ sunk' = sunk

C6_Conflict == [] C6_AtMostOne /\ [][C6_SecondRejected]_vars

C6_Witness ==
    \E p, q \in Procs :
        /\ SameStart(p, q)
        /\ commit_result[p].ok
        /\ pc[q] = "Done" /\ result[q] = Err("Conflict")

\* C7: the sink is never handed an envelope of an identity after it was
\* handed an envelope of the same identity with a greater sequence number.
C7_SinkInSequenceOrder ==
    \A i, j \in 1..Len(sunk) :
        (i < j /\ sunk[i].id = sunk[j].id) =>
            \A a \in 1..Len(sunk[i].batch), b \in 1..Len(sunk[j].batch) :
                sunk[i].batch[a].sequence < sunk[j].batch[b].sequence

\* C8: a successful execute dispatched exactly once, with its own identity
\* and with a batch equal to the envelopes its commit appended to the log.
CommittedBy(p) ==
    SubSeq(log[ToString(aggregate_id[p])],
           current_sequence[p] + 1,
           current_sequence[p] + Len(handled[p].events))

C8_NotifiedAsCommitted ==
    \A p \in Procs :
        (pc[p] = "Done" /\ result[p].ok) =>
            /\ ncalls[p].dispatch = 1
            /\ Len(CommittedBy(p)) = Len(handled[p].events)
            /\ \E i \in 1..Len(sunk) :
                   sunk[i] = [id |-> aggregate_id[p], batch |-> CommittedBy(p)]
            /\ CommittedBy(p) # <<>> =>
                   Cardinality({i \in 1..Len(sunk) :
                                   sunk[i].batch = CommittedBy(p)}) = 1

C8_Witness ==
    \E p \in Procs :
        /\ pc[p] = "Done" /\ result[p].ok
        /\ aggregate_id[p] = 1 /\ current_sequence[p] = 2
        /\ Len(log["A"]) = 3
        /\ sunk[Len(sunk)] = [id |-> 1, batch |-> <<log["A"][3]>>]
        /\ log["A"][3].sequence = 3

\* C9: once its commit succeeded an execute returns success whatever the
\* sink did, and the dispatch leaves the log as it was.
C9_SuccessState ==
    \A p \in Procs :
        (pc[p] = "Done" /\ ncalls[p].commit = 1 /\ commit_result[p].ok) =>
            result[p] = Ok

C9_DispatchKeepsLog ==
    \A p \in Procs : (pc[p] = "Notifying" /\ StepOf(p)) => log' = log

C9_SinkFailureIgnored == [] C9_SuccessState /\ [][C9_DispatchKeepsLog]_vars

C9_Witness ==
    \E p \in Procs :
        /\ pc[p] = "Done" /\ sink_outcome[p] = "failed"
        /\ commit_result[p].ok /\ wrapped_events[p] # <<>>
        /\ result[p] = Ok

\* C10: an execute whose command produces no event returns success after one
\* commit and one dispatch, both with the empty batch, and none of its steps
\* changes the log or the current_sequence a later load computes.
ProducedNothing(p) == handled[p].ok /\ handled[p].events = <<>>

C10_EmptyState ==
    \A p \in Procs :
        (ProducedNothing(p) /\ pc[p] = "Done") =>
            /\ result[p] = Ok
            /\ wrapped_events[p] = <<>>
            /\ ncalls[p].commit = 1
            /\ ncalls[p].dispatch = 1
            /\ \E i \in 1..Len(sunk) :
                   sunk[i] = [id |-> aggregate_id[p], batch |-> <<>>]

C10_EmptyKeepsLog ==
    \A p \in Procs :
        (ProducedNothing(p) /\ pc[p] # "Done" /\ StepOf(p)) =>
            /\ log' = log
            /\ LoadAggregate(StoreLoad(log', aggregate_id[p])).current_sequence
                 = LoadAggregate(StoreLoad(log, aggregate_id[p])).current_sequence

C10_EmptyCommand == [] C10_EmptyState /\ [][C10_EmptyKeepsLog]_vars

C10_Witness ==
    \E p \in Procs :
        /\ ProducedNothing(p) /\ pc[p] = "Done" /\ result[p] = Ok
        /\ current_sequence[p] = 2
        /\ Len(log[ToString(aggregate_id[p])]) = 2

\* C11: the batch handed to the sink is a copy made before the commit, held
\* in a Vec of its own: when the sink drains the batch it was handed, the
\* stored envelopes stay as they were.
C11_CopyBeforeCommit ==
    \A p \in Procs :
        pc[p] = "Committing" => committed_events[p] = wrapped_events[p]

C11_ConsumeKeepsLog ==
    \A p \in Procs :
        (pc[p] = "Notifying" /\ StepOf(p) /\ sink_outcome'[p] = "consumed") =>
            /\ log' = log
            /\ persisted_in' = persisted_in
            /\ CommittedBy(p)' = committed_events[p]

C11_Isolation == [] C11_CopyBeforeCommit /\ [][C11_ConsumeKeepsLog]_vars

C11_Witness ==
    \E p \in Procs :
        /\ pc[p] = "Done" /\ sink_outcome[p] = "consumed"
        /\ Len(wrapped_events[p]) = 2
        /\ CommittedBy(p) = wrapped_events[p]

\* C12: two loads that fold the same envelopes end in the same aggregate
\* state and the same current_sequence, and a load leaves the log as it was.
C12_SameReplay ==
    \A p, q \in Procs :
        (Loaded(p) /\ Loaded(q) /\ loaded[p] = loaded[q]) =>
            /\ aggregate[p] = aggregate[q]
            /\ current_sequence[p] = current_sequence[q]

C12_LoadKeepsLog ==
    \A p \in Procs :
        (pc[p] = "Loading" /\ StepOf(p)) =>
            /\ log' = log
            /\ loaded'[p] = log[ToString(aggregate_id[p])]

C12_ReplayDeterministic == [] C12_SameReplay /\ [][C12_LoadKeepsLog]_vars

C12_Witness ==
    \E p, q \in Procs :
        /\ p # q /\ Loaded(p) /\ Loaded(q)
        /\ loaded[p] = loaded[q] /\ Len(loaded[p]) = 2
        /\ aggregate[p] = 2 /\ aggregate[q] = 2
        /\ current_sequence[q] = 2

\* C13: an invocation loads once and commits at most once; a rejected commit
\* ends the invocation, its batch never reaches the log, and the only step
\* after the end is a new invocation.
C13_OnceState ==
    \A p \in Procs :
        /\ ncalls[p].load <= 1
        /\ ncalls[p].commit <= 1
        /\ pc[p] \notin {"Idle", "Loading"} => ncalls[p].load = 1
        /\ (ncalls[p].commit >= 1 /\ ~commit_result[p].ok) =>
               /\ pc[p] = "Done"
               /\ \A i \in 1..Len(wrapped_events[p]) :
                    \A k \in Keys : \A n \in 1..Len(log[k]) :
                        log[k][n] # wrapped_events[p][i]

C13_EndIsFinal ==
    \A p \in Procs :
        (pc[p] = "Done" /\ StepOf(p)) =>
            /\ pc'[p] = "Loading"
            /\ calls' = calls + 1
            /\ ncalls'[p] = NoCalls
            /\ log' = log

C13_NoRetry == [] C13_OnceState /\ [][C13_EndIsFinal]_vars

C13_Witness ==
    \E p \in Procs :
        /\ pc[p] = "Done" /\ result[p] = Err("Conflict")
        /\ ncalls[p].load = 1 /\ ncalls[p].commit = 1
        /\ Len(wrapped_events[p]) = 1
        /\ Len(log[ToString(aggregate_id[p])]) = 3

\* C14: an invocation passes Loading, Executing, Wrapping, Committing,
\* Notifying and Done in this order, each at most once and none skipped; a
\* failed command ends it in Executing and a failed commit in Committing.
C14_StageCalls ==
    \A p \in Procs :
        /\ pc[p] = "Loading" => ncalls[p] = NoCalls
        /\ pc[p] = "Executing" =>
               ncalls[p] = [NoCalls EXCEPT !.load = 1]
        /\ pc[p] = "Wrapping" =>
               ncalls[p] = [NoCalls EXCEPT !.load = 1, !.handle = 1]
        /\ pc[p] = "Committing" =>
               /\ ncalls[p].load = 1 /\ ncalls[p].handle = 1
               /\ ncalls[p].commit = 0 /\ ncalls[p].dispatch = 0
        /\ pc[p] = "Notifying" =>
               /\ ncalls[p].load = 1 /\ ncalls[p].handle = 1
               /\ ncalls[p].commit = 1 /\ ncalls[p].dispatch = 0

C14_StageOrder ==
    \A p \in Procs :
        StepOf(p) =>
            \/ pc[p] \in {"Idle", "Done"} /\ pc'[p] = "Loading"
            \/ pc[p] = "Loading" /\ pc'[p] = "Executing"
            \/ pc[p] = "Executing" /\ pc'[p] = "Wrapping" /\ handled'[p].ok
            \/ /\ pc[p] = "Executing" /\ pc'[p] = "Done"
               /\ ~handled'[p].ok /\ ~result'[p].ok
            \/ pc[p] = "Wrapping" /\ pc'[p] = "Committing"
            \/ /\ pc[p] = "Committing" /\ pc'[p] = "Notifying"
               /\ ncalls'[p].commit = 1 /\ commit_result'[p].ok
            \/ /\ pc[p] = "Committing" /\ pc'[p] = "Done"
               /\ ncalls'[p].commit = 1 /\ ~commit_result'[p].ok
               /\ ~result'[p].ok
            \/ /\ pc[p] = "Notifying" /\ pc'[p] = "Done"
               /\ ncalls'[p].dispatch = 1 /\ result'[p] = Ok

C14_Stages == [] C14_StageCalls /\ [][C14_StageOrder]_vars

C14_Witness ==
    \E p, q \in Procs :
        /\ pc[p] = "Done" /\ result[p] = Ok
        /\ ncalls[p] = [load |-> 1, handle |-> 1, supply |-> 2,
                        commit |-> 1, dispatch |-> 1]
        /\ pc[q] = "Done" /\ result[q] = Err("Unavailable")
        /\ ncalls[q] = [load |-> 1, handle |-> 1, supply |-> 1,
                        commit |-> 1, dispatch |-> 0]

\* C15: the current_sequence of a load is the highest sequence number among
\* the envelopes the store returned, and 0 when it returned none.
Highest(envelopes) ==
    IF envelopes = <<>>
    THEN 0
    ELSE CHOOSE m \in {envelopes[i].sequence : i \in 1..Len(envelopes)} :
             \A i \in 1..Len(envelopes) : envelopes[i].sequence <= m

C15_HighestSequence ==
    \A p \in Procs :
        Loaded(p) => current_sequence[p] = Highest(loaded[p])

C15_Witness ==
    \E p, q \in Procs :
        /\ Loaded(p) /\ Len(loaded[p]) = 3 /\ current_sequence[p] = 3
        /\ Loaded(q) /\ loaded[q] = <<>> /\ current_sequence[q] = 0

\* C16: an invocation whose command produced K events makes K supply calls,
\* all of them between the success of the command and the commit, and its
\* i-th envelope carries the result of the i-th of these calls.
C16_SupplyCount ==
    \A p \in Procs :
        /\ pc[p] \in {"Loading", "Executing", "Wrapping"} =>
               ncalls[p].supply = 0
        /\ (ncalls[p].handle = 1 /\ ~handled[p].ok) => ncalls[p].supply = 0
        /\ Wrapped(p) =>
               /\ ncalls[p].supply = Len(handled[p].events)
               /\ \A i \in 1..Len(wrapped_events[p]) :
                    /\ wrapped_events[p][i].metadata.stamp <= supplied
                    /\ wrapped_events[p][i].metadata =
                         Supply(wrapped_events[p][1].metadata.stamp + i - 1)

C16_SupplyCalls ==
    \A p \in Procs :
        /\ (pc[p] = "Wrapping" /\ StepOf(p)) =>
               /\ supplied' = supplied + Len(handled[p].events)
               /\ ncalls'[p].commit = 0
               /\ \A i \in 1..Len(handled[p].events) :
                    wrapped_events'[p][i].metadata = Supply(supplied + i)
        /\ (pc[p] # "Wrapping" /\ StepOf(p)) => supplied' = supplied

C16_OneSupplyPerEvent == [] C16_SupplyCount /\ [][C16_SupplyCalls]_vars

C16_Witness ==
    \E p \in Procs :
        /\ pc[p] = "Committing" /\ ncalls[p].supply = 2
        /\ wrapped_events[p][1].metadata = Supply(2)
        /\ wrapped_events[p][2].metadata = Supply(3)

\* C17: the aggregate and the current_sequence of an invocation are those of
\* the envelopes its own load returned for its identity, folded from the
\* default state: nothing of an earlier or of another invocation enters.
Balance(envelopes) ==
    DefaultAggregate
    + Cardinality({i \in 1..Len(envelopes) : envelopes[i].payload = "Deposited"})
    - Cardinality({i \in 1..Len(envelopes) : envelopes[i].payload # "Deposited"})

LastSequence(envelopes) ==
    IF envelopes = <<>> THEN 0 ELSE envelopes[Len(envelopes)].sequence

C17_FoldOfLoaded ==
    \A p \in Procs :
        Loaded(p) =>
            /\ aggregate[p] = Balance(loaded[p])
            /\ current_sequence[p] = LastSequence(loaded[p])

C17_LoadOwnLog ==
    \A p \in Procs :
        (pc[p] = "Loading" /\ StepOf(p)) =>
            /\ aggregate'[p] = Balance(log[ToString(aggregate_id[p])])
            /\ current_sequence'[p] =
                   LastSequence(log[ToString(aggregate_id[p])])

C17_FreshAggregate == [] C17_FoldOfLoaded /\ [][C17_LoadOwnLog]_vars

C17_Witness ==
    \E p, q \in Procs :
        /\ p # q /\ call_no[p] = 2 /\ Loaded(p) /\ Loaded(q)
        /\ aggregate_id[p] = aggregate_id[q]
        /\ Len(loaded[p]) = 2 /\ aggregate[p] = 0
        /\ aggregate[q] = 1

\* C18: every envelope an invocation on identity I builds carries the string
\* form and the type name of I; the invocation changes the stored events of
\* no other identity, and what it hands to the sink it hands under I.
C18_OwnIdentity ==
    /\ \A p \in Procs :
         Wrapped(p) =>
             \A i \in 1..Len(wrapped_events[p]) :
                 /\ wrapped_events[p][i].aggregate_id
                      = ToString(aggregate_id[p])
                 /\ wrapped_events[p][i].aggregate_type
                      = AggregateType(aggregate_id[p])
    /\ \A i \in 1..Len(sunk) : \A j \in 1..Len(sunk[i].batch) :
         sunk[i].batch[j].aggregate_id = ToString(sunk[i].id)

C18_OthersUntouched ==
    \A p \in Procs :
        (pc[p] \notin {"Idle", "Done"} /\ StepOf(p)) =>
            /\ \A k \in Keys \ {ToString(aggregate_id[p])} : log'[k] = log[k]
            /\ sunk' # sunk =>
                   /\ Len(sunk') = Len(sunk) + 1
                   /\ SubSeq(sunk', 1, Len(sunk)) = sunk
                   /\ sunk'[Len(sunk')].id = aggregate_id[p]

C18_IdentityFrame == [] C18_OwnIdentity /\ [][C18_OthersUntouched]_vars

C18_Witness ==
    \E p \in Procs :
        /\ pc[p] = "Done" /\ result[p] = Ok /\ aggregate_id[p] = 2
        /\ Len(log["A"]) = 2 /\ Len(log["B"]) = 1
        /\ log["B"][1].aggregate_id = "B"
        /\ sunk[Len(sunk)].id = 2

\* C19: every invocation ends, with success or with an error, and an
\* invocation whose commit succeeded ends with success after one dispatch.
Running(p) ==
    pc[p] \in {"Loading", "Executing", "Wrapping", "Committing", "Notifying"}

Returned(p) ==
    /\ pc[p] = "Done"
    /\ \/ result[p] = Ok
       \/ ~result[p].ok /\ result[p].err # "pending"

C19_Terminates ==
    \A p \in Procs :
        /\ Running(p) ~> Returned(p)
        /\ (pc[p] = "Notifying") ~>
               (pc[p] = "Done" /\ result[p] = Ok /\ ncalls[p].dispatch = 1)

C19_Witness ==
    \E p, q \in Procs :
        /\ pc[p] = "Done" /\ result[p] = Ok /\ ncalls[p].dispatch = 1
        /\ wrapped_events[p] # <<>>
        /\ pc[q] = "Done" /\ result[q] = Err("Conflict")

\* C20: a non-empty batch built on envelopes that are no longer the whole
\* log of its identity is rejected as a conflict and leaves the log as it
\* was; a batch that is stored follows exactly the envelopes its command
\* saw replayed.
C20_BuiltOnPrefix ==
    \A p \in Procs :
        (ncalls[p].commit = 1 /\ commit_result[p].ok
           /\ wrapped_events[p] # <<>>) =>
            /\ loaded[p] = SubSeq(log[ToString(aggregate_id[p])], 1,
                                  current_sequence[p])
            /\ CommittedBy(p) = wrapped_events[p]
            /\ handled[p] = HandleCommand(command[p], Balance(loaded[p]))

C20_StaleRejected ==
    \A p \in Procs :
        (pc[p] = "Committing" /\ StepOf(p) /\ wrapped_events[p] # <<>>) =>
            LET before == log[ToString(aggregate_id[p])]
                after == log'[ToString(aggregate_id[p])]
            IN /\ before # loaded[p] =>
                      /\ commit_result'[p] = Err("Conflict")
                      /\ log' = log
               /\ after # before =>
                      /\ before = loaded[p]
                      /\ after = before \o wrapped_events[p]
                      /\ aggregate[p] = Balance(before)

C20_NoStaleDecision == [] C20_BuiltOnPrefix /\ [][C20_StaleRejected]_vars

C20_Witness ==
    \E p, q \in Procs :
        /\ pc[p] = "Done" /\ result[p] = Err("Conflict")
        /\ command[p] = "Withdraw" /\ aggregate[p] = 1
        /\ Balance(log[ToString(aggregate_id[p])]) = 0
        /\ aggregate_id[q] = aggregate_id[p]
        /\ command[q] = "Withdraw" /\ pc[q] = "Done" /\ result[q] = Ok

====
